---- MODULE Spec2Model ----
(***************************************************************************)
(* Model of the pedagogical agents of mfr-education-automation:            *)
(*   - CollectiveValidationAgent (agents/collective_validation_agent.py)   *)
(*   - AcademicComplianceAgent   (agents/academic_compliance_agent.py)     *)
(* Every method is one atomic action: the methods are synchronous and the  *)
(* only state that outlives a call is AcademicComplianceAgent.referentiels *)
(* and the caller's progress data. The state records the last invocation:  *)
(* its arguments, its local variables at return, its return value, the     *)
(* exception it let escape and the requests it handed to                   *)
(* client.chat.completions.create.                                         *)
(*                                                                         *)
(* String literals are written without accents: "maitrise" stands for the  *)
(* source's "maîtrisé", "cet eleve" for "cet élève".                       *)
(***************************************************************************)
EXTENDS Integers, Sequences, FiniteSets, TLC

VARIABLES
    referentiels,   \* AcademicComplianceAgent.referentiels (the loaded YAML document)
    progress_data,  \* the caller's list of per-student progress dictionaries
    op,             \* name of the last method invoked ("init" before any call)
    args,           \* its arguments
    locals,         \* its local variables when it returned
    result,         \* its return value (NoResult when an exception escaped)
    raised,         \* the exception that escaped the call, "none" otherwise
    sent,           \* requests passed to the external service by that call, in order
    replies,        \* how the service answered each of them: "ok" or "exception"
    threads,        \* the invocations running concurrently (NoThreads when calls are sequential)
    lookups,        \* history: for each competence id looked up so far, what its first
                    \* lookup found and whether the id was looked up again since
    fs              \* the file system FileManager works on: its directories, its
                    \* files, and (history) what was asked to be written to each path

vars == <<referentiels, progress_data, op, args, locals, result, raised, sent,
          replies, threads, lookups, fs>>

----------------------------------------------------------------------------
(* Bounds *)

\* longest roster enumerated exhaustively
MaxRoster == 3
\* most referentiels in a framework document
MaxReferentiels == 2
\* most competences in a framework document, over all its referentiels
MaxCompetences == 2
\* most pieces of content written to one path by a write and the appends after it
MaxChunks == 3

----------------------------------------------------------------------------
(* Values shared by the agents *)

NoResult == [status |-> "no result"]
NoArgs == [none |-> TRUE]
NoLocals == [none |-> TRUE]
\* no call is running concurrently
NoThreads == [calls |-> << >>, frames |-> << >>]
\* no competence id has been looked up yet
NoLookups == [x \in {} |-> 0]
\* a file system with no directory and no file, to which nothing was written
NoFiles == [dirs |-> {}, files |-> [x \in {} |-> << >>], written |-> [x \in {} |-> << >>]]

\* Outcome of client.chat.completions.create: it returns a completion or raises.
ServiceOutcomes == {"ok", "exception"}
\* chat_completion.choices[0].message.content
Response == "response"
\* the exception e raised by the service, as interpolated into an error message
ServiceError == "e"
\* The answers to the requests of one call: the model gives every request of a
\* call the same outcome.
Replies(requests, svc) == [i \in 1..Len(requests) |-> svc]

\* dict.get(key, default)
Get(d, key, default) == IF key \in DOMAIN d THEN d[key] ELSE default

\* Python's None as the default of dict.get(key)
None == "None"

----------------------------------------------------------------------------
(* CollectiveValidationAgent *)

Maitrise == "maitrise"
EnCours == "en cours"

\* A rational number num/den, den > 0. threshold and mastery_ratio are Python
\* floats; count/len is the correctly rounded quotient and rounding is
\* monotone, so for the rosters and thresholds enumerated here (distinct
\* values differ by far more than one ulp) the float comparison agrees
\* with the comparison of the exact quotients.
Rat(n, d) == [num |-> n, den |-> d]

\* a >= b on rationals
GE(a, b) == a.num * b.den >= b.num * a.den

\* Progress dictionaries of single students: competence id -> label.
StudentKinds ==
    { [x \in {} |-> None],
      [x \in {"D1.3"} |-> Maitrise],
      [x \in {"D1.3"} |-> EnCours],
      [x \in {"D1.3"} |-> "Maitrise"],
      [x \in {"D1.3", "D2.1"} |-> Maitrise] }

\* progress_data of the usage example: 9 of 10 students "maitrise" on D1.3
ExampleProgressData ==
    [i \in 1..10 |-> IF i = 3 THEN [x \in {"D1.3"} |-> EnCours]
                              ELSE [x \in {"D1.3"} |-> Maitrise]]

\* the same class with only 8 of 10 "maitrise"
ExampleProgressData8 ==
    [i \in 1..10 |-> IF i \in {3, 4} THEN [x \in {"D1.3"} |-> EnCours]
                                     ELSE [x \in {"D1.3"} |-> Maitrise]]

Rosters ==
    UNION { [1..n -> StudentKinds] : n \in 0..MaxRoster }
        \cup {ExampleProgressData, ExampleProgressData8}

ProgressIds == {"D1.3", "D2.1"}

Thresholds ==
    { Rat(0 - 1, 10), Rat(0, 1), Rat(1, 2), Rat(9, 10), Rat(1, 1) }

DefaultThreshold == Rat(9, 10)

StudentLevels == {"moyen", "avance"}

\* Mutant of MasteryCount: a student without an entry for the competence counts as mastered.
RECURSIVE MasteryCountMissingAsMastered(_, _)
MasteryCountMissingAsMastered(student_progress_data, competence_id) ==
    IF Len(student_progress_data) = 0 THEN 0
    ELSE (IF Get(Head(student_progress_data), competence_id, Maitrise) = Maitrise THEN 1 ELSE 0)
         + MasteryCountMissingAsMastered(Tail(student_progress_data), competence_id)

\* Mutant of MasteryCount: every mastered competence of a student counts, whatever its id.
RECURSIVE MasteryCountAnyCompetence(_, _)
MasteryCountAnyCompetence(student_progress_data, competence_id) ==
    IF Len(student_progress_data) = 0 THEN 0
    ELSE Cardinality({k \in DOMAIN Head(student_progress_data) :
                         Head(student_progress_data)[k] = Maitrise})
         + MasteryCountAnyCompetence(Tail(student_progress_data), competence_id)

\* Mutant of MasteryCount: the students who have not mastered the competence are counted.
RECURSIVE MasteryCountNotMastered(_, _)
MasteryCountNotMastered(student_progress_data, competence_id) ==
    IF Len(student_progress_data) = 0 THEN 0
    ELSE (IF Get(Head(student_progress_data), competence_id, None) = Maitrise THEN 0 ELSE 1)
         + MasteryCountNotMastered(Tail(student_progress_data), competence_id)

\* sum(1 for student in student_progress_data if student.get(competence_id) == "maitrise")
RECURSIVE MasteryCount(_, _)
MasteryCount(student_progress_data, competence_id) ==
    IF Len(student_progress_data) = 0 THEN 0
    ELSE (IF Get(Head(student_progress_data), competence_id, None) = Maitrise THEN 1 ELSE 0)
         + MasteryCount(Tail(student_progress_data), competence_id)

\* a / b: raises ZeroDivisionError when b = 0
Divide(a, b) ==
    IF b = 0 THEN [error |-> "ZeroDivisionError", num |-> 0, den |-> 1]
    ELSE [error |-> "none", num |-> a, den |-> b]

\* Mutant of MasteryRatio: the division without the guard on the empty roster.
MasteryRatioUnguarded(mastery_count, student_progress_data) ==
    Divide(mastery_count, Len(student_progress_data))

\* Mutant of MasteryRatio: the class size is remembered from the previous
\* evaluation instead of being taken from the roster passed to this one.
MasteryRatioRemembered(mastery_count, student_progress_data) ==
    IF "mastery_ratio" \in DOMAIN locals
    THEN Divide(mastery_count, locals.mastery_ratio.den)
    ELSE IF Len(student_progress_data) # 0
    THEN Divide(mastery_count, Len(student_progress_data))
    ELSE [error |-> "none", num |-> 0, den |-> 1]

\* mastery_count / len(student_progress_data) if student_progress_data else 0
MasteryRatio(mastery_count, student_progress_data) ==
    IF Len(student_progress_data) # 0
    THEN Divide(mastery_count, Len(student_progress_data))
    ELSE [error |-> "none", num |-> 0, den |-> 1]

\* Mutant of MeetsThreshold: an open lower bound.
MeetsThresholdStrict(mastery_ratio, threshold) == ~GE(threshold, mastery_ratio)

\* Mutant of MeetsThreshold: the comparison the other way round.
MeetsThresholdReversed(mastery_ratio, threshold) == GE(threshold, mastery_ratio)

\* mastery_ratio >= threshold
MeetsThreshold(mastery_ratio, threshold) == GE(mastery_ratio, threshold)

\* The whole of check_collective_mastery: locals, return value, escaped exception.
check_collective_mastery(student_progress_data, competence_id, threshold) ==
    LET mastery_count == MasteryCount(student_progress_data, competence_id)
        mastery_ratio == MasteryRatio(mastery_count, student_progress_data)
    IN  IF mastery_ratio.error # "none"
        THEN [locals |-> [mastery_count |-> mastery_count, mastery_ratio |-> Rat(0, 1)],
              raised |-> mastery_ratio.error,
              result |-> NoResult]
        ELSE [locals |-> [mastery_count |-> mastery_count,
                          mastery_ratio |-> Rat(mastery_ratio.num, mastery_ratio.den)],
              raised |-> "none",
              result |-> MeetsThreshold(mastery_ratio, threshold)]

\* Mutant of AssessmentPrompt: the class level is not interpolated, the default is.
AssessmentPromptDefaultLevel(competence_id, student_level) ==
    [template |-> "devoir de validation collective",
     competence_id |-> competence_id,
     student_level |-> "moyen"]

\* The prompt of generate_collective_assessment: the template and what it interpolates.
AssessmentPrompt(competence_id, student_level) ==
    [template |-> "devoir de validation collective",
     competence_id |-> competence_id,
     student_level |-> student_level]

AssessmentSystem ==
    "Vous etes un ingenieur pedagogique specialise dans la creation d'evaluations collectives."

\* The whole of generate_collective_assessment under a given service outcome.
generate_collective_assessment(competence_id, student_level, svc) ==
    [sent |-> << [system |-> AssessmentSystem,
                  user |-> AssessmentPrompt(competence_id, student_level),
                  model |-> "gpt-4"] >>,
     result |-> IF svc = "ok"
                THEN [status |-> "success", assessment |-> Response]
                ELSE [status |-> "error",
                      message |-> <<"Erreur lors de la generation de l'evaluation collective : ",
                                    ServiceError>>]]

\* Mutant of GateProceeds: the assessment is requested whatever the check returned.
GateAlwaysProceeds(is_mastered) == TRUE

\* Whether the usage example goes on to request the assessment: `if is_mastered:`
GateProceeds(is_mastered) == is_mastered

CheckCollectiveMastery ==
    \E cid \in ProgressIds, t \in Thresholds :
        LET r == check_collective_mastery(progress_data, cid, t)
        IN  /\ op' = "check_collective_mastery"
            /\ args' = [competence_id |-> cid, threshold |-> t]
            /\ locals' = r.locals
            /\ result' = r.result
            /\ raised' = r.raised
            /\ sent' = << >>
            /\ replies' = << >>
            /\ UNCHANGED <<referentiels, progress_data, threads>>

GenerateCollectiveAssessment ==
    \E cid \in ProgressIds, level \in StudentLevels, svc \in ServiceOutcomes :
        LET g == generate_collective_assessment(cid, level, svc)
        IN  /\ op' = "generate_collective_assessment"
            /\ args' = [competence_id |-> cid, student_level |-> level]
            /\ locals' = NoLocals
            /\ result' = g.result
            /\ raised' = "none"
            /\ sent' = g.sent
            /\ replies' = Replies(g.sent, svc)
            /\ UNCHANGED <<referentiels, progress_data, threads>>

\* The gate of the usage example (lines 73-82), with the competence id, the
\* threshold and the class level as parameters: the mastery check, and the
\* collective assessment only when it returned True. (The example itself passes
\* "D1.3" twice and no level, so that the level is the default "moyen".)
CollectiveValidationGate ==
    \E cid \in ProgressIds, t \in Thresholds,
       level \in StudentLevels, svc \in ServiceOutcomes :
        LET r == check_collective_mastery(progress_data, cid, t)
            g == generate_collective_assessment(cid, level, svc)
        IN  /\ op' = "collective_validation_gate"
            /\ args' = [competence_id |-> cid, threshold |-> t, student_level |-> level]
            /\ locals' = r.locals
            /\ raised' = r.raised
            /\ IF r.raised # "none"
               THEN result' = NoResult /\ sent' = << >>
               ELSE IF GateProceeds(r.result)
               THEN /\ result' = [is_mastered |-> r.result, assessment |-> g.result]
                    /\ sent' = g.sent
               ELSE /\ result' = [is_mastered |-> r.result]
                    /\ sent' = << >>
            /\ replies' = << >>
            /\ UNCHANGED <<referentiels, progress_data, threads>>

InitMastery ==
    /\ referentiels = [referentiels |-> << >>]
    /\ progress_data \in Rosters
    /\ op = "init"
    /\ args = NoArgs
    /\ locals = NoLocals
    /\ result = NoResult
    /\ raised = "none"
    /\ sent = << >>
    /\ replies = << >>
    /\ threads = NoThreads
    /\ lookups = NoLookups
    /\ fs = NoFiles

NextMastery ==
    /\ \/ CheckCollectiveMastery
       \/ GenerateCollectiveAssessment
       \/ CollectiveValidationGate
    /\ UNCHANGED <<lookups, fs>>

SpecMastery == InitMastery /\ [][NextMastery]_vars

----------------------------------------------------------------------------
(* CollectiveValidationAgent: checks of a class whose progress data changes *)

\* The rosters a class goes through between two checks.
SequenceRosters == { r \in Rosters : Len(r) < MaxRoster }

\* The caller rebuilds its progress data (students join or leave, labels
\* change) before it calls the agent again. The record of the last call is
\* cleared except for what that call computed, which is all that a later call
\* could have remembered.
UpdateProgressData ==
    \E data \in SequenceRosters :
        /\ data # progress_data
        /\ progress_data' = data
        /\ op' = "update progress_data"
        /\ args' = NoArgs
        /\ result' = NoResult
        /\ raised' = "none"
        /\ sent' = << >>
        /\ replies' = << >>
        /\ UNCHANGED <<referentiels, locals, threads>>

InitSequence ==
    /\ referentiels = [referentiels |-> << >>]
    /\ progress_data \in SequenceRosters
    /\ op = "init"
    /\ args = NoArgs
    /\ locals = NoLocals
    /\ result = NoResult
    /\ raised = "none"
    /\ sent = << >>
    /\ replies = << >>
    /\ threads = NoThreads
    /\ lookups = NoLookups
    /\ fs = NoFiles

NextSequence ==
    /\ \/ CheckCollectiveMastery
       \/ UpdateProgressData
    /\ UNCHANGED <<lookups, fs>>

SpecSequence == InitSequence /\ [][NextSequence]_vars

----------------------------------------------------------------------------
(* AcademicComplianceAgent *)

\* Competences a referentiels.yaml may hold: two that share the id "D1.3", and
\* one whose id differs from it by case only and that has no `indicateurs`.
CompetenceCatalog ==
    { [id |-> "D1.3", name |-> "Pythagore", description |-> "triangle rectangle",
       indicateurs |-> <<"i1", "i2">>],
      [id |-> "D1.3", name |-> "Thales", description |-> "proportionnalite",
       indicateurs |-> <<"i3">>],
      [id |-> "d1.3", name |-> "Fractions", description |-> "calcul fractionnaire"] }

\* for r in referentiels["referentiels"] for c in r["competences"]: the
\* competences in document order
RECURSIVE AllCompetences(_)
AllCompetences(rs) ==
    IF Len(rs) = 0 THEN << >>
    ELSE Head(rs).competences \o AllCompetences(Tail(rs))

\* The documents yaml.safe_load may return (_load_referentiels validates nothing).
Documents ==
    LET lists == UNION { [1..n -> CompetenceCatalog] : n \in 0..MaxCompetences }
        refs  == { [competences |-> cs] : cs \in lists }
        seqs  == UNION { [1..n -> refs] : n \in 0..MaxReferentiels }
    IN  { [referentiels |-> rs] : rs \in { x \in seqs : Len(AllCompetences(x)) <= MaxCompetences } }

CompetenceIds == {"D1.3", "d1.3", "X9.9"}

Contents == {"Le theoreme de Pythagore permet de calculer la longueur des cotes."}

Students == { [name |-> "Alice", level |-> "debutant"], [level |-> "debutant"] }

Gaps == {"Difficulte a appliquer le theoreme de Pythagore."}

\* Lower-casing of the ids in use (for the mutant below).
Lower(id) == CASE id = "D1.3" -> "d1.3" [] id = "X9.9" -> "x9.9" [] OTHER -> id

\* Mutant of FirstMatch: ids are compared without regard to case.
RECURSIVE FirstMatchIgnoreCase(_, _)
FirstMatchIgnoreCase(cs, competence_id) ==
    IF Len(cs) = 0 THEN << >>
    ELSE IF Lower(Head(cs).id) = Lower(competence_id) THEN << Head(cs) >>
    ELSE FirstMatchIgnoreCase(Tail(cs), competence_id)

\* Mutant of FirstMatch: without a match the first competence is the default.
RECURSIVE FirstMatchOrDefault(_, _)
FirstMatchOrDefault(cs, competence_id) ==
    IF Len(cs) = 0 THEN << >>
    ELSE IF \A i \in 1..Len(cs) : cs[i].id # competence_id THEN << Head(cs) >>
    ELSE IF Head(cs).id = competence_id THEN << Head(cs) >>
    ELSE FirstMatchOrDefault(Tail(cs), competence_id)

\* Mutant of FirstMatch: the last competence with the id is taken.
RECURSIVE FirstMatchLast(_, _)
FirstMatchLast(cs, competence_id) ==
    IF Len(cs) = 0 THEN << >>
    ELSE LET later == FirstMatchLast(Tail(cs), competence_id)
         IN  IF Len(later) > 0 THEN later
             ELSE IF Head(cs).id = competence_id THEN << Head(cs) >>
             ELSE << >>

\* next((c for c in cs if c["id"] == competence_id), None): << >> is None,
\* << c >> the first competence with that id.
RECURSIVE FirstMatch(_, _)
FirstMatch(cs, competence_id) ==
    IF Len(cs) = 0 THEN << >>
    ELSE IF Head(cs).id = competence_id THEN << Head(cs) >>
    ELSE FirstMatch(Tail(cs), competence_id)

\* Mutant of FindCompetence: the generator over the framework is kept between
\* calls and is exhausted once a lookup has found its competence.
FindCompetenceExhausted(doc, competence_id) ==
    IF "competence" \in DOMAIN locals /\ Len(locals.competence) > 0
    THEN << >>
    ELSE FirstMatch(AllCompetences(doc.referentiels), competence_id)

\* The lookup that opens check_compliance, generate_remediation_plan and
\* generate_enrichment_plan.
FindCompetence(doc, competence_id) ==
    FirstMatch(AllCompetences(doc.referentiels), competence_id)

\* sep.join(parts): the pieces of the resulting string, in order
RECURSIVE Join(_, _)
Join(sep, parts) ==
    IF Len(parts) = 0 THEN << >>
    ELSE IF Len(parts) = 1 THEN << Head(parts) >>
    ELSE << Head(parts), sep >> \o Join(sep, Tail(parts))

\* A call of client.chat.completions.create
ChatRequest(system, prompt) == [system |-> system, user |-> prompt, model |-> "gpt-4"]

\* Mutant of ChatResult: an exception of the service is swallowed into an empty
\* answer of the success shape.
ChatResultSwallowed(svc, key, error_text) ==
    [status |-> "success"] @@ (key :> IF svc = "ok" THEN Response ELSE "")

\* What the call returns under a service outcome: the success dictionary, or
\* the error dictionary of the except branch.
ChatResult(svc, key, error_text) ==
    IF svc = "ok"
    THEN [status |-> "success"] @@ (key :> Response)
    ELSE [status |-> "error", message |-> << error_text, ServiceError >>]

CompliancePrompt(competence, content_to_check) ==
    [template |-> "conformite",
     name |-> competence.name,
     description |-> competence.description,
     indicateurs |-> Join("- ", competence.indicateurs),
     content |-> content_to_check]

\* The whole of check_compliance under a given service outcome.
check_compliance(doc, content_to_check, competence_id, svc) ==
    LET competence == FindCompetence(doc, competence_id)
    IN  IF Len(competence) = 0
        THEN [locals |-> [competence |-> competence],
              raised |-> "none",
              sent |-> << >>,
              result |-> [status |-> "error",
                          message |-> << "Competence ", competence_id,
                                         " non trouvee dans les referentiels." >>]]
        ELSE IF "indicateurs" \notin DOMAIN competence[1]
        THEN [locals |-> [competence |-> competence],
              raised |-> "KeyError",
              sent |-> << >>,
              result |-> NoResult]
        ELSE [locals |-> [competence |-> competence],
              raised |-> "none",
              sent |-> << ChatRequest("Vous etes un assistant expert en conformite academique.",
                                      CompliancePrompt(competence[1], content_to_check)) >>,
              result |-> ChatResult(svc, "evaluation",
                                    "Erreur lors de la verification de conformite : ")]

\* Mutant of RemediationPrompt: the student is never named, the placeholder is
\* used even when the record has a name.
RemediationPromptAnonymous(student_data, competence, identified_gaps) ==
    [template |-> "plan de remediation",
     student |-> "cet eleve",
     name |-> competence.name,
     description |-> competence.description,
     gaps |-> identified_gaps]

RemediationPrompt(student_data, competence, identified_gaps) ==
    [template |-> "plan de remediation",
     student |-> Get(student_data, "name", "cet eleve"),
     name |-> competence.name,
     description |-> competence.description,
     gaps |-> identified_gaps]

EnrichmentPrompt(student_data, competence) ==
    [template |-> "plan d'approfondissement",
     student |-> Get(student_data, "name", "cet eleve"),
     name |-> competence.name,
     description |-> competence.description]

\* Mutant of RemediationRequests: the request is sent a second time.
RemediationRequestsRetried(student_data, competence, identified_gaps) ==
    LET request == ChatRequest("Vous etes un tuteur IA expert en pedagogie.",
                               RemediationPrompt(student_data, competence, identified_gaps))
    IN  << request, request >>

\* The requests generate_remediation_plan sends for a resolved competence.
RemediationRequests(student_data, competence, identified_gaps) ==
    << ChatRequest("Vous etes un tuteur IA expert en pedagogie.",
                   RemediationPrompt(student_data, competence, identified_gaps)) >>

\* Mutant of EnrichmentRequests: the remediation request is sent as well.
EnrichmentRequestsAndRemediation(student_data, competence) ==
    << ChatRequest("Vous etes un tuteur IA expert en pedagogie.",
                   RemediationPrompt(student_data, competence, "")),
       ChatRequest("Vous etes un tuteur IA expert en pedagogie et en developpement de talents.",
                   EnrichmentPrompt(student_data, competence)) >>

\* The requests generate_enrichment_plan sends for a resolved competence.
EnrichmentRequests(student_data, competence) ==
    << ChatRequest("Vous etes un tuteur IA expert en pedagogie et en developpement de talents.",
                   EnrichmentPrompt(student_data, competence)) >>

\* Mutant of PlanNotFound: a best-effort request is sent for the unknown id
\* before the error is returned.
PlanNotFoundBestEffort(competence_id) ==
    [locals |-> [competence |-> << >>],
     raised |-> "none",
     sent |-> << ChatRequest("Vous etes un tuteur IA expert en pedagogie.",
                             [template |-> "plan de remediation", student |-> "cet eleve",
                              name |-> competence_id, description |-> "", gaps |-> ""]) >>,
     result |-> [status |-> "error",
                 message |-> << "Competence ", competence_id, " non trouvee." >>]]

\* What the plan generators return when the lookup found nothing.
PlanNotFound(competence_id) ==
    [locals |-> [competence |-> << >>],
     raised |-> "none",
     sent |-> << >>,
     result |-> [status |-> "error",
                 message |-> << "Competence ", competence_id, " non trouvee." >>]]

\* The whole of generate_remediation_plan under a given service outcome.
generate_remediation_plan(doc, student_data, competence_id, identified_gaps, svc) ==
    LET competence == FindCompetence(doc, competence_id)
    IN  IF Len(competence) = 0
        THEN PlanNotFound(competence_id)
        ELSE [locals |-> [competence |-> competence],
              raised |-> "none",
              sent |-> RemediationRequests(student_data, competence[1], identified_gaps),
              result |-> ChatResult(svc, "plan",
                                    "Erreur lors de la generation du plan de remediation : ")]

\* The whole of generate_enrichment_plan under a given service outcome.
generate_enrichment_plan(doc, student_data, competence_id, svc) ==
    LET competence == FindCompetence(doc, competence_id)
    IN  IF Len(competence) = 0
        THEN PlanNotFound(competence_id)
        ELSE [locals |-> [competence |-> competence],
              raised |-> "none",
              sent |-> EnrichmentRequests(student_data, competence[1]),
              result |-> ChatResult(svc, "plan",
                                    "Erreur lors de la generation du plan d'approfondissement : ")]

\* Mutant of ReferentielsAfter: the lookup consumes the first referentiel of the
\* document it walks through.
ReferentielsConsumed(doc, competence_id) ==
    IF Len(doc.referentiels) = 0 THEN doc
    ELSE [referentiels |-> Tail(doc.referentiels)]

\* self.referentiels after an operation: the lookup iterates over the document
\* and the prompts interpolate fields of the competence found; nothing is
\* assigned, appended or removed.
ReferentielsAfter(doc, competence_id) == doc

CheckCompliance ==
    \E content \in Contents, cid \in CompetenceIds, svc \in ServiceOutcomes :
        LET r == check_compliance(referentiels, content, cid, svc)
        IN  /\ op' = "check_compliance"
            /\ args' = [content_to_check |-> content, competence_id |-> cid]
            /\ locals' = r.locals
            /\ result' = r.result
            /\ raised' = r.raised
            /\ sent' = r.sent
            /\ replies' = Replies(r.sent, svc)
            /\ referentiels' = ReferentielsAfter(referentiels, cid)
            /\ UNCHANGED <<progress_data, threads>>

GenerateRemediationPlan ==
    \E student \in Students, cid \in CompetenceIds, gaps \in Gaps, svc \in ServiceOutcomes :
        LET r == generate_remediation_plan(referentiels, student, cid, gaps, svc)
        IN  /\ op' = "generate_remediation_plan"
            /\ args' = [student_data |-> student, competence_id |-> cid,
                        identified_gaps |-> gaps]
            /\ locals' = r.locals
            /\ result' = r.result
            /\ raised' = r.raised
            /\ sent' = r.sent
            /\ replies' = Replies(r.sent, svc)
            /\ referentiels' = ReferentielsAfter(referentiels, cid)
            /\ UNCHANGED <<progress_data, threads>>

GenerateEnrichmentPlan ==
    \E student \in Students, cid \in CompetenceIds, svc \in ServiceOutcomes :
        LET r == generate_enrichment_plan(referentiels, student, cid, svc)
        IN  /\ op' = "generate_enrichment_plan"
            /\ args' = [student_data |-> student, competence_id |-> cid]
            /\ locals' = r.locals
            /\ result' = r.result
            /\ raised' = r.raised
            /\ sent' = r.sent
            /\ replies' = Replies(r.sent, svc)
            /\ referentiels' = ReferentielsAfter(referentiels, cid)
            /\ UNCHANGED <<progress_data, threads>>

\* AcademicComplianceAgent(): referentiels is whatever the YAML file holds.
Init ==
    /\ referentiels \in Documents
    /\ progress_data = << >>
    /\ op = "init"
    /\ args = NoArgs
    /\ locals = NoLocals
    /\ result = NoResult
    /\ raised = "none"
    /\ sent = << >>
    /\ replies = << >>
    /\ threads = NoThreads
    /\ lookups = NoLookups
    /\ fs = NoFiles

Next ==
    /\ \/ CheckCompliance
       \/ GenerateRemediationPlan
       \/ GenerateEnrichmentPlan
    /\ UNCHANGED <<lookups, fs>>

Spec == Init /\ [][Next]_vars

\* The same calls with the history of the lookups kept: the first lookup of an
\* id records what it found, a later one marks the id as looked up again.
RecordLookup(history, competence_id, competence) ==
    IF competence_id \in DOMAIN history
    THEN [history EXCEPT ![competence_id].repeated = TRUE]
    ELSE history @@ (competence_id :> [competence |-> competence, repeated |-> FALSE])

\* The frameworks looked up repeatedly: those in which every referentiel holds
\* a competence (an empty referentiel adds nothing to a lookup).
LookupDocuments ==
    { d \in Documents :
        \A i \in 1..Len(d.referentiels) : Len(d.referentiels[i].competences) > 0 }

InitLookup == Init /\ referentiels \in LookupDocuments

NextLookup ==
    /\ \/ CheckCompliance
       \/ GenerateRemediationPlan
       \/ GenerateEnrichmentPlan
    /\ lookups' = RecordLookup(lookups, args'.competence_id, locals'.competence)
    /\ UNCHANGED fs

SpecLookup == InitLookup /\ [][NextLookup]_vars

----------------------------------------------------------------------------
(* GeminiComplianceAgent *)

\* The stages of the usage example's workflow description (line 67).
StageNames == {"Lecture planning", "Analyse profils eleves", "Generation contenu"}

\* workflow_description: the text is modelled by the ordered list of the stage
\* names it declares; every order of every subset of StageNames.
WorkflowDescriptions ==
    UNION { { s \in [1..n -> StageNames] : \A i, j \in 1..n : s[i] = s[j] => i = j } :
            n \in 0..Cardinality(StageNames) }

\* current_state: the text is modelled by the stage it reports as completed: a
\* declared name, a fragment of one, or a name that no description declares.
CurrentStates == StageNames \cup {"Lecture", "Evaluation"}

\* response.text: the generative model answers with free text; whichever stage
\* it names, or the end of the workflow, is an answer it can give.
ModelTexts == StageNames \cup {"complete"}

\* The prompt of orchestrate_workflow (lines 40-48).
OrchestrationPrompt(workflow_description, current_state) ==
    [template |-> "orchestrateur de workflow",
     workflow_description |-> workflow_description,
     current_state |-> current_state]

\* The whole of orchestrate_workflow: the prompt goes to model.generate_content
\* once, and the answer's text is returned as it came.
orchestrate_workflow(workflow_description, current_state, svc, text) ==
    [sent |-> << OrchestrationPrompt(workflow_description, current_state) >>,
     result |-> IF svc = "ok"
                THEN [status |-> "success", next_steps |-> text]
                ELSE [status |-> "error",
                      message |-> <<"Erreur lors de l'orchestration du workflow : ",
                                    ServiceError>>]]

OrchestrateWorkflow ==
    \E wd \in WorkflowDescriptions, cs \in CurrentStates,
       svc \in ServiceOutcomes, text \in ModelTexts :
        LET r == orchestrate_workflow(wd, cs, svc, text)
        IN  /\ op' = "orchestrate_workflow"
            /\ args' = [workflow_description |-> wd, current_state |-> cs]
            /\ locals' = NoLocals
            /\ result' = r.result
            /\ raised' = "none"
            /\ sent' = r.sent
            /\ replies' = Replies(r.sent, svc)
            /\ UNCHANGED <<referentiels, progress_data, threads>>

\* GeminiComplianceAgent(): the agent holds the generative model and no data.
InitWorkflow ==
    /\ referentiels = [referentiels |-> << >>]
    /\ progress_data = << >>
    /\ op = "init"
    /\ args = NoArgs
    /\ locals = NoLocals
    /\ result = NoResult
    /\ raised = "none"
    /\ sent = << >>
    /\ replies = << >>
    /\ threads = NoThreads
    /\ lookups = NoLookups
    /\ fs = NoFiles

NextWorkflow == OrchestrateWorkflow /\ UNCHANGED <<lookups, fs>>

SpecWorkflow == InitWorkflow /\ [][NextWorkflow]_vars

----------------------------------------------------------------------------
(* FileManager (tools/file_manager.py) *)

\* The paths handed to FileManager: the bare file name of the usage example
\* and a path with a directory part.
FilePaths == {"test_output.txt", "out/test_output.txt"}

\* The pieces of content written; the content of a file is the sequence of the
\* pieces it is made of.
FileContents == {"Ceci est un test d'ecriture.", "Ceci est une ligne ajoutee."}

\* os.path.dirname(file_path): everything before the last "/", "" when the
\* path has none
Dirname(file_path) ==
    CASE file_path = "out/test_output.txt" -> "out"
      [] OTHER -> ""

\* os.makedirs(name, exist_ok=True): creates the directory when it is missing;
\* FileNotFoundError on the empty name.
Makedirs(disk, name) ==
    IF name = ""
    THEN [error |-> "FileNotFoundError", disk |-> disk]
    ELSE [error |-> "none", disk |-> [disk EXCEPT !.dirs = @ \cup {name}]]

\* The file's content after f.write(piece) on the file opened in the mode: "w"
\* truncates, "a" keeps what is there; both create the file.
Opened(disk, file_path, mode, piece) ==
    IF mode = "a" /\ file_path \in DOMAIN disk.files
    THEN [disk EXCEPT !.files[file_path] = @ \o << piece >>]
    ELSE [disk EXCEPT !.files = [p \in DOMAIN @ \cup {file_path} |->
                                    IF p = file_path THEN << piece >> ELSE @[p]]]

\* read_file: the content, or the message of the except FileNotFoundError branch.
read_file(disk, file_path) ==
    IF file_path \in DOMAIN disk.files
    THEN [disk |-> disk, result |-> disk.files[file_path]]
    ELSE [disk |-> disk,
          result |-> << "Erreur: Le fichier ", file_path, " n'a pas ete trouve." >>]

\* write_file: makedirs on the directory part, then the file is opened in
\* mode "w" and written; any exception becomes the error message.
write_file(disk, file_path, content) ==
    LET made == Makedirs(disk, Dirname(file_path))
    IN  IF made.error # "none"
        THEN [disk |-> disk,
              result |-> << "Erreur lors de l'ecriture dans le fichier ", file_path,
                            ": ", made.error >>]
        ELSE [disk |-> Opened(made.disk, file_path, "w", content),
              result |-> << "Contenu ecrit avec succes dans ", file_path, "." >>]

\* append_to_file: the same with mode "a".
append_to_file(disk, file_path, content) ==
    LET made == Makedirs(disk, Dirname(file_path))
    IN  IF made.error # "none"
        THEN [disk |-> disk,
              result |-> << "Erreur lors de l'ajout au fichier ", file_path,
                            ": ", made.error >>]
        ELSE [disk |-> Opened(made.disk, file_path, "a", content),
              result |-> << "Contenu ajoute avec succes a ", file_path, "." >>]

\* History: what the path was asked to hold, the piece of the last write_file
\* followed by the pieces of the append_to_file calls after it.
Written(history, file_path, mode, piece) ==
    IF mode = "a" /\ file_path \in DOMAIN history
    THEN [history EXCEPT ![file_path] = @ \o << piece >>]
    ELSE [p \in DOMAIN history \cup {file_path} |->
             IF p = file_path THEN << piece >> ELSE history[p]]

\* What a FileManager call leaves unchanged and clears in the record of the
\* last call.
FileCall(name, call_args, call_result) ==
    /\ op' = name
    /\ args' = call_args
    /\ locals' = NoLocals
    /\ result' = call_result
    /\ raised' = "none"
    /\ sent' = << >>
    /\ replies' = << >>
    /\ UNCHANGED <<referentiels, progress_data, threads, lookups>>

ReadFile ==
    \E file_path \in FilePaths :
        LET r == read_file(fs, file_path)
        IN  /\ FileCall("read_file", [file_path |-> file_path], r.result)
            /\ fs' = r.disk

WriteFile ==
    \E file_path \in FilePaths, content \in FileContents :
        LET r == write_file(fs, file_path, content)
        IN  /\ FileCall("write_file", [file_path |-> file_path, content |-> content], r.result)
            /\ fs' = [r.disk EXCEPT !.written = Written(fs.written, file_path, "w", content)]

AppendToFile ==
    \E file_path \in FilePaths, content \in FileContents :
        /\ file_path \in DOMAIN fs.written => Len(fs.written[file_path]) < MaxChunks
        /\ LET r == append_to_file(fs, file_path, content)
           IN  /\ FileCall("append_to_file",
                           [file_path |-> file_path, content |-> content], r.result)
               /\ fs' = [r.disk EXCEPT !.written = Written(fs.written, file_path, "a", content)]

\* FileManager(): the class has no constructor and no attribute.
InitFiles ==
    /\ referentiels = [referentiels |-> << >>]
    /\ progress_data = << >>
    /\ op = "init"
    /\ args = NoArgs
    /\ locals = NoLocals
    /\ result = NoResult
    /\ raised = "none"
    /\ sent = << >>
    /\ replies = << >>
    /\ threads = NoThreads
    /\ lookups = NoLookups
    /\ fs = NoFiles

NextFiles ==
    \/ ReadFile
    \/ WriteFile
    \/ AppendToFile

SpecFiles == InitFiles /\ [][NextFiles]_vars

----------------------------------------------------------------------------
(* Two invocations running concurrently *)

\* The hosting application runs two calls at once, each in a thread of its own,
\* on the same agents. A call advances one statement at a time and the
\* statements of the two calls interleave in every order. threads.calls[t] is
\* the call of thread t (its arguments, the statement it is at, what it
\* returned or raised, what it sent to the service); threads.frames[f] holds
\* the local variables of a call.

\* The rosters of the two classes checked at once.
ConcurrentRosters == { r \in Rosters : Len(r) <= 1 }

\* The frameworks the concurrent lookups share.
ConcurrentDocuments == { d \in Documents : Len(d.referentiels) <= 1 }

\* The calls a thread can make.
ConcurrentCalls ==
    { [kind |-> "check_collective_mastery",
       args |-> [student_progress_data |-> r, competence_id |-> "D1.3", threshold |-> t]] :
        r \in ConcurrentRosters, t \in {Rat(1, 2), Rat(1, 1)} }
    \cup
    { [kind |-> "check_compliance",
       args |-> [content_to_check |-> "Le theoreme de Pythagore", competence_id |-> cid]] :
        cid \in CompetenceIds }

\* The first statement of a method.
FirstLine(kind) == IF kind = "check_collective_mastery" THEN "24" ELSE "23"

EmptyFrame == [mastery_count |-> None, mastery_ratio |-> None, competence |-> None]

\* Mutant of Frame: the intermediate values are kept in attributes of the
\* agent, one set for all the calls.
FrameOnAgent(t) == 1

\* The frame holding the local variables of the call of thread t: every call
\* of a Python function has a frame of its own.
Frame(t) == t

\* collective_validation_agent.py line 24: mastery_count = sum(...)
MasteryLine24(t) ==
    /\ threads.calls[t].kind = "check_collective_mastery"
    /\ threads.calls[t].pc = "24"
    /\ threads' = [threads EXCEPT
           !.frames[Frame(t)].mastery_count =
               MasteryCount(threads.calls[t].args.student_progress_data,
                            threads.calls[t].args.competence_id),
           !.calls[t].pc = "25"]

\* line 25: mastery_ratio = mastery_count / len(...) if ... else 0
MasteryLine25(t) ==
    /\ threads.calls[t].kind = "check_collective_mastery"
    /\ threads.calls[t].pc = "25"
    /\ threads' = [threads EXCEPT
           !.frames[Frame(t)].mastery_ratio =
               MasteryRatio(threads.frames[Frame(t)].mastery_count,
                            threads.calls[t].args.student_progress_data),
           !.calls[t].pc = "26"]

\* line 26: return mastery_ratio >= threshold
MasteryLine26(t) ==
    /\ threads.calls[t].kind = "check_collective_mastery"
    /\ threads.calls[t].pc = "26"
    /\ threads' = [threads EXCEPT
           !.calls[t].result =
               MeetsThreshold(threads.frames[Frame(t)].mastery_ratio,
                              threads.calls[t].args.threshold),
           !.calls[t].pc = "returned"]

\* academic_compliance_agent.py line 23: competence = next(..., None)
ComplianceLine23(t) ==
    /\ threads.calls[t].kind = "check_compliance"
    /\ threads.calls[t].pc = "23"
    /\ threads' = [threads EXCEPT
           !.frames[Frame(t)].competence =
               FindCompetence(referentiels, threads.calls[t].args.competence_id),
           !.calls[t].pc = "24"]

\* lines 24-25: if not competence: return the not-found error
ComplianceLine24(t) ==
    /\ threads.calls[t].kind = "check_compliance"
    /\ threads.calls[t].pc = "24"
    /\ IF Len(threads.frames[Frame(t)].competence) = 0
       THEN threads' = [threads EXCEPT
                !.calls[t].result =
                    [status |-> "error",
                     message |-> << "Competence ", threads.calls[t].args.competence_id,
                                    " non trouvee dans les referentiels." >>],
                !.calls[t].pc = "returned"]
       ELSE threads' = [threads EXCEPT !.calls[t].pc = "27"]

\* lines 27-55: the prompt is built from the competence found (a KeyError
\* escapes when it has no indicateurs), sent to the service, and the answer or
\* the error is returned.
ComplianceLine27(t) ==
    /\ threads.calls[t].kind = "check_compliance"
    /\ threads.calls[t].pc = "27"
    /\ LET competence == threads.frames[Frame(t)].competence[1]
       IN  IF "indicateurs" \notin DOMAIN competence
           THEN threads' = [threads EXCEPT !.calls[t].raised = "KeyError",
                                           !.calls[t].pc = "raised"]
           ELSE \E svc \in ServiceOutcomes :
                  threads' = [threads EXCEPT
                      !.calls[t].sent =
                          << ChatRequest("Vous etes un assistant expert en conformite academique.",
                                         CompliancePrompt(competence,
                                             threads.calls[t].args.content_to_check)) >>,
                      !.calls[t].replies = << svc >>,
                      !.calls[t].result =
                          ChatResult(svc, "evaluation",
                                     "Erreur lors de la verification de conformite : "),
                      !.calls[t].pc = "returned"]

\* One statement of the call of thread t.
ThreadStep(t) ==
    /\ \/ MasteryLine24(t)
       \/ MasteryLine25(t)
       \/ MasteryLine26(t)
       \/ ComplianceLine23(t)
       \/ ComplianceLine24(t)
       \/ ComplianceLine27(t)
    /\ UNCHANGED <<referentiels, progress_data, op, args, locals, result, raised,
                   sent, replies>>

StartedCall(c) ==
    [kind |-> c.kind, args |-> c.args, pc |-> FirstLine(c.kind),
     result |-> NoResult, raised |-> "none", sent |-> << >>, replies |-> << >>]

InitConcurrent ==
    /\ referentiels \in ConcurrentDocuments
    /\ progress_data = << >>
    /\ op = "init"
    /\ args = NoArgs
    /\ locals = NoLocals
    /\ result = NoResult
    /\ raised = "none"
    /\ sent = << >>
    /\ replies = << >>
    /\ \E c1, c2 \in ConcurrentCalls :
          threads = [calls |-> << StartedCall(c1), StartedCall(c2) >>,
                     frames |-> << EmptyFrame, EmptyFrame >>]
    /\ lookups = NoLookups
    /\ fs = NoFiles

NextConcurrent == (\E t \in 1..2 : ThreadStep(t)) /\ UNCHANGED <<lookups, fs>>

SpecConcurrent == InitConcurrent /\ [][NextConcurrent]_vars

----------------------------------------------------------------------------
(* One invocation of each operation that contacts an external service *)

\* The outcome of every method is a function of the loaded framework and of
\* the arguments of the call (Spec, SpecMastery and SpecWorkflow explore the
\* sequences of calls), so the operations of the three agents are put side by
\* side here, each invoked once on freshly constructed agents.
InitInvocation == Init

NextInvocation ==
    /\ op = "init"
    /\ \/ CheckCompliance
       \/ GenerateRemediationPlan
       \/ GenerateEnrichmentPlan
       \/ GenerateCollectiveAssessment
       \/ OrchestrateWorkflow
    /\ UNCHANGED <<lookups, fs>>

SpecInvocation == InitInvocation /\ [][NextInvocation]_vars

----------------------------------------------------------------------------
(* Properties of CollectiveValidationAgent, checked under SpecMastery *)

\* Indices of the roster entries whose label for the competence is "maitrise".
MasteredStudents(cid) ==
    { i \in 1..Len(progress_data) :
        cid \in DOMAIN progress_data[i] /\ progress_data[i][cid] = Maitrise }

MasteryOps == {"check_collective_mastery", "collective_validation_gate"}

\* C1: for a non-empty roster, check_collective_mastery returns True if and
\* only if mastered-count / roster-size >= threshold; a ratio equal to the
\* threshold qualifies.
C1_ThresholdMetIffRatioAtLeast ==
    (op = "check_collective_mastery" /\ Len(progress_data) > 0) =>
        /\ raised = "none"
        /\ result = (Cardinality(MasteredStudents(args.competence_id)) * args.threshold.den
                        >= args.threshold.num * Len(progress_data))

\* C1 witness: 9 of the 10 students have mastered, the threshold is 9/10, and
\* the check returned True on the boundary.
C1_Witness ==
    /\ op = "check_collective_mastery"
    /\ Len(progress_data) = 10
    /\ Cardinality(MasteredStudents(args.competence_id)) = 9
    /\ args.threshold = Rat(9, 10)
    /\ raised = "none"
    /\ result = TRUE

\* C2 as stated: for an empty roster and every threshold, the check yields
\* ratio 0 and False, without raising.
C2_EmptyRosterNeverMet ==
    (op = "check_collective_mastery" /\ Len(progress_data) = 0) =>
        /\ raised = "none"
        /\ locals.mastery_ratio.num = 0
        /\ result = FALSE

\* C2 amended: for an empty roster the check never raises and yields ratio 0;
\* it returns False for every threshold above 0 and True for a threshold of 0
\* or below (0 >= threshold).
C2_EmptyRosterRatioZero ==
    (op = "check_collective_mastery" /\ Len(progress_data) = 0) =>
        /\ raised = "none"
        /\ locals.mastery_ratio.num = 0
        /\ result = (args.threshold.num <= 0)

\* C2 witness: the check ran on the empty roster with the default threshold
\* and returned False.
C2_Witness ==
    /\ op = "check_collective_mastery"
    /\ Len(progress_data) = 0
    /\ args.threshold = DefaultThreshold
    /\ raised = "none"
    /\ locals.mastery_ratio.num = 0
    /\ result = FALSE

\* C3: the mastered-count is the number of roster entries whose label for the
\* requested competence is "maitrise"; every other entry, with another label or
\* with no entry for the competence, is in the denominator only.
C3_CountIsMasteredEntries ==
    (op \in MasteryOps) =>
        /\ locals.mastery_count = Cardinality(MasteredStudents(args.competence_id))
        /\ Len(progress_data) > 0 =>
              /\ locals.mastery_ratio.num = Cardinality(MasteredStudents(args.competence_id))
              /\ locals.mastery_ratio.den = Len(progress_data)

\* C3 witness: a roster of three with one mastered entry, one entry with
\* another label and one student without an entry; the count is 1 of 3.
C3_Witness ==
    /\ op = "check_collective_mastery"
    /\ Len(progress_data) = 3
    /\ \E i, j, k \in 1..3 :
          /\ Get(progress_data[i], args.competence_id, None) = Maitrise
          /\ Get(progress_data[j], args.competence_id, None) = EnCours
          /\ args.competence_id \notin DOMAIN progress_data[k]
    /\ locals.mastery_count = 1
    /\ locals.mastery_ratio = Rat(1, 3)

\* C4: the mastery ratio lies in [0,1]: the mastered-count is never negative
\* and never above the roster size.
C4_RatioInUnitInterval ==
    (op \in MasteryOps) =>
        /\ locals.mastery_count >= 0
        /\ locals.mastery_count <= Len(progress_data)
        /\ GE(locals.mastery_ratio, Rat(0, 1))
        /\ GE(Rat(1, 1), locals.mastery_ratio)

\* C4 witness: every student of a roster of three has mastered two competences,
\* and the ratio for one of them is exactly 1.
C4_Witness ==
    /\ op = "check_collective_mastery"
    /\ Len(progress_data) = 3
    /\ \A i \in 1..3 : DOMAIN progress_data[i] = {"D1.3", "D2.1"}
    /\ locals.mastery_ratio = Rat(3, 3)

----------------------------------------------------------------------------
(* Properties of AcademicComplianceAgent, checked under Spec *)

\* The competences of the loaded framework whose id is exactly `cid`.
CompetencesWithId(cid) ==
    { c \in UNION { { referentiels.referentiels[i].competences[j] :
                        j \in 1..Len(referentiels.referentiels[i].competences) } :
                    i \in 1..Len(referentiels.referentiels) } :
        c.id = cid }

PlanOps == {"generate_remediation_plan", "generate_enrichment_plan"}

ComplianceOps == {"check_compliance"} \cup PlanOps

\* C7: check_compliance with a competence id absent from the loaded framework
\* returns the error verdict and sends nothing to the content-generation
\* service during that invocation.
C7_AbsentIdNoDispatch ==
    (op = "check_compliance" /\ CompetencesWithId(args.competence_id) = {}) =>
        /\ raised = "none"
        /\ sent = << >>
        /\ result = [status |-> "error",
                     message |-> << "Competence ", args.competence_id,
                                    " non trouvee dans les referentiels." >>]

\* C7 witness: the framework holds "D1.3", check_compliance was called with
\* "X9.9", returned the error and sent nothing.
C7_Witness ==
    /\ op = "check_compliance"
    /\ args.competence_id = "X9.9"
    /\ CompetencesWithId("D1.3") # {}
    /\ result.status = "error"
    /\ sent = << >>

\* C8: generate_remediation_plan and generate_enrichment_plan with a
\* competence id that does not resolve return the not-found error and send no
\* request at all.
C8_PlanNotFoundNoRequest ==
    (op \in PlanOps /\ CompetencesWithId(args.competence_id) = {}) =>
        /\ raised = "none"
        /\ sent = << >>
        /\ result = [status |-> "error",
                     message |-> << "Competence ", args.competence_id, " non trouvee." >>]

\* C8 witness: a remediation plan was asked for "X9.9" against a framework
\* that holds other competences; the error came back and nothing was sent.
C8_Witness ==
    /\ op = "generate_remediation_plan"
    /\ args.competence_id = "X9.9"
    /\ Len(AllCompetences(referentiels.referentiels)) > 0
    /\ result.status = "error"
    /\ sent = << >>

\* C9: one call of the plan selector sends at most one request, so never both
\* a remediation and an enrichment request.
C9_NeverBothPlans ==
    (op \in PlanOps) =>
        /\ Len(sent) <= 1
        /\ ~ /\ \E i \in 1..Len(sent) : sent[i].user.template = "plan de remediation"
             /\ \E j \in 1..Len(sent) : sent[j].user.template = "plan d'approfondissement"
        /\ \A i \in 1..Len(sent) :
              sent[i].user.template =
                  IF op = "generate_remediation_plan" THEN "plan de remediation"
                  ELSE "plan d'approfondissement"

\* C9 witness: an enrichment plan was generated for a resolved competence and
\* exactly the enrichment request was sent.
C9_Witness ==
    /\ op = "generate_enrichment_plan"
    /\ result.status = "success"
    /\ Len(sent) = 1
    /\ sent[1].user.template = "plan d'approfondissement"

\* C10: the lookup matches ids exactly and case-sensitively over all domains:
\* when it resolves, the competence used is one of the framework with the
\* requested id, and when no competence has that id the call reports not found
\* and uses no competence at all.
C10_ExactLookup ==
    (op \in ComplianceOps) =>
        /\ CompetencesWithId(args.competence_id) # {} =>
              /\ Len(locals.competence) = 1
              /\ locals.competence[1] \in CompetencesWithId(args.competence_id)
              /\ \A i \in 1..Len(sent) :
                    \E c \in CompetencesWithId(args.competence_id) :
                        /\ sent[i].user.name = c.name
                        /\ sent[i].user.description = c.description
        /\ CompetencesWithId(args.competence_id) = {} =>
              /\ locals.competence = << >>
              /\ sent = << >>
              /\ result.status = "error"
              /\ result.message[1] = "Competence "
              /\ result.message[2] = args.competence_id

\* C10 witness: the framework holds "D1.3" in its second referentiel and no
\* "d1.3"; a lookup of "d1.3" reported not found, it did not resolve to "D1.3".
C10_Witness ==
    /\ op \in ComplianceOps
    /\ args.competence_id = "d1.3"
    /\ Len(referentiels.referentiels) = 2
    /\ \E c \in CompetencesWithId("D1.3") :
          c \in { referentiels.referentiels[2].competences[j] :
                    j \in 1..Len(referentiels.referentiels[2].competences) }
    /\ CompetencesWithId("d1.3") = {}
    /\ locals.competence = << >>
    /\ result.status = "error"

\* The competences of the loaded framework, in document order.
LoadedCompetences == AllCompetences(referentiels.referentiels)

\* C11 as stated: a source in which two competences (of the same or of
\* different referentiels) share an id is rejected when it is loaded, so that
\* no lookup ever runs against a framework holding a duplicate id.
C11_DuplicateIdNeverLoaded ==
    (op \in ComplianceOps) =>
        \A i, j \in 1..Len(LoadedCompetences) :
            LoadedCompetences[i].id = LoadedCompetences[j].id => i = j

\* C12 as stated: a source in which a competence has no `indicateurs` is
\* rejected when it is loaded, so that no compliance check, remediation or
\* enrichment ever runs against a framework holding such a competence.
C12_MissingIndicateursNeverLoaded ==
    (op \in ComplianceOps) =>
        \A i \in 1..Len(LoadedCompetences) :
            /\ "indicateurs" \in DOMAIN LoadedCompetences[i]
            /\ Len(LoadedCompetences[i].indicateurs) >= 1

----------------------------------------------------------------------------
(* Properties of GeminiComplianceAgent, checked under SpecWorkflow *)

\* Positions of the completed stage in the declared stage list.
DeclaredAt(workflow_description, current_state) ==
    { i \in 1..Len(workflow_description) : workflow_description[i] = current_state }

\* C13 as stated: when the completed stage is declared at index i, the
\* orchestrator returns the stage declared at index i+1, and the terminal
\* "complete" when i is the last index.
C13_NextStageInOrder ==
    (/\ op = "orchestrate_workflow"
     /\ replies = <<"ok">>
     /\ DeclaredAt(args.workflow_description, args.current_state) # {}) =>
        LET i == CHOOSE k \in DeclaredAt(args.workflow_description, args.current_state) : TRUE
        IN  /\ result.status = "success"
            /\ result.next_steps =
                   IF i < Len(args.workflow_description)
                   THEN args.workflow_description[i + 1]
                   ELSE "complete"

\* C14 as stated: when the completed stage matches no declared stage name (a
\* fragment of a name included), the orchestrator signals UnrecognizedStage and
\* names no successor stage.
C14_UnrecognizedStageNoSuccessor ==
    (/\ op = "orchestrate_workflow"
     /\ DeclaredAt(args.workflow_description, args.current_state) = {}) =>
        /\ result.status = "error"
        /\ "next_steps" \notin DOMAIN result

----------------------------------------------------------------------------
(* Properties of the operations that contact a service, checked under      *)
(* SpecInvocation                                                          *)

\* The last call looked a competence up and the framework has none with the id.
CompetenceNotFound ==
    op \in ComplianceOps /\ CompetencesWithId(args.competence_id) = {}

\* The external call of the last invocation raised.
ServiceFailed == \E i \in 1..Len(replies) : replies[i] = "exception"

\* C15: a competence that is not found and an external call that fails are
\* both returned as an error result (status "error" and a message, nothing
\* else); a result has status "success" only when the competence, if the
\* operation looks one up, was resolved and the external call succeeded.
C15_FailuresAreExplicitErrors ==
    (op # "init") =>
        /\ (CompetenceNotFound \/ ServiceFailed) =>
              /\ raised = "none"
              /\ result.status = "error"
              /\ DOMAIN result = {"status", "message"}
        /\ result.status = "success" =>
              /\ ~CompetenceNotFound
              /\ replies = <<"ok">>
              /\ "message" \notin DOMAIN result

\* C15 witness: check_compliance resolved the competence, the external call
\* raised, and the call returned the error result carrying the exception.
C15_Witness ==
    /\ op = "check_compliance"
    /\ CompetencesWithId(args.competence_id) # {}
    /\ replies = <<"exception">>
    /\ result.status = "error"
    /\ result.message[2] = ServiceError

\* C17: no operation retries: an invocation hands at most one request to the
\* external service, and when that call raises, the error result carrying the
\* exception is returned after that single request.
C17_AtMostOneServiceCall ==
    (op # "init") =>
        /\ Len(sent) <= 1
        /\ Len(replies) = Len(sent)
        /\ ServiceFailed =>
              /\ Len(sent) = 1
              /\ result.status = "error"
              /\ result.message[2] = ServiceError

\* C17 witness: a remediation plan was requested for a resolved competence, the
\* one call to the service raised and the error was returned at once.
C17_Witness ==
    /\ op = "generate_remediation_plan"
    /\ Len(locals.competence) = 1
    /\ Len(sent) = 1
    /\ replies = <<"exception">>
    /\ result.status = "error"

----------------------------------------------------------------------------
(* Further properties of AcademicComplianceAgent, checked under Spec *)

\* C16 as stated: the operations on a resolved competence only assemble the
\* request and return it for dispatch; they issue no call to the external
\* content-generation service themselves.
C16_CoreIssuesNoCall ==
    (op \in ComplianceOps /\ CompetencesWithId(args.competence_id) # {}) =>
        sent = << >>

----------------------------------------------------------------------------
(* Properties of a sequence of mastery checks, checked under SpecSequence *)

\* The verdict on a roster computed from that roster alone: the share of its
\* entries labelled "maitrise" for the competence against the threshold, and
\* 0 against the threshold when the roster is empty.
VerdictOf(roster, cid, threshold) ==
    LET mastered == { i \in 1..Len(roster) :
                        cid \in DOMAIN roster[i] /\ roster[i][cid] = Maitrise }
    IN  IF Len(roster) = 0
        THEN GE(Rat(0, 1), threshold)
        ELSE GE(Rat(Cardinality(mastered), Len(roster)), threshold)

\* C18: in any sequence of checks between which the roster changes, every
\* check returns the verdict of the roster, competence id and threshold it was
\* passed (the ratio is over the size of that roster, not one seen earlier),
\* and the check leaves the roster, every student's labels included, as it was.
C18_MasteryCheckStateless ==
    [][ (op' = "check_collective_mastery") =>
            /\ progress_data' = progress_data
            /\ raised' = "none"
            /\ result' = VerdictOf(progress_data, args'.competence_id, args'.threshold)
            /\ locals'.mastery_ratio.den =
                   (IF Len(progress_data) = 0 THEN 1 ELSE Len(progress_data)) ]_vars

\* C18 witness: a roster of one student, who has mastered the competence, was
\* checked at threshold 9/10: the ratio is over that one student and the
\* threshold is met.
C18_Witness ==
    /\ op = "check_collective_mastery"
    /\ Len(progress_data) = 1
    /\ progress_data[1] = [x \in {"D1.3"} |-> Maitrise]
    /\ args.competence_id = "D1.3"
    /\ args.threshold = Rat(9, 10)
    /\ locals.mastery_ratio = Rat(1, 1)
    /\ result = TRUE

\* C19: the loaded framework is never modified: no compliance check,
\* remediation request or enrichment request, successful or failing, changes
\* self.referentiels, so that after any sequence of them it is what the load
\* produced.
C19_FrameworkImmutable == [][referentiels' = referentiels]_vars

\* C19 witness: on a framework of two competences, an enrichment request
\* resolved its competence and failed on the external call.
C19_Witness ==
    /\ op = "generate_enrichment_plan"
    /\ Len(LoadedCompetences) = 2
    /\ Len(locals.competence) = 1
    /\ replies = <<"exception">>
    /\ result.status = "error"

----------------------------------------------------------------------------
(* Properties of concurrent invocations, checked under SpecConcurrent *)

\* What the call c does when it runs alone, under the answer the service gave
\* it (or any answer if it did not get to ask).
RunAlone(c) ==
    IF c.kind = "check_collective_mastery"
    THEN LET r == check_collective_mastery(c.args.student_progress_data,
                                           c.args.competence_id, c.args.threshold)
         IN  [result |-> r.result, raised |-> r.raised, sent |-> << >>]
    ELSE LET r == check_compliance(referentiels, c.args.content_to_check,
                                   c.args.competence_id,
                                   IF c.replies = << >> THEN "ok" ELSE c.replies[1])
         IN  [result |-> r.result, raised |-> r.raised, sent |-> r.sent]

\* C20: however the statements of two concurrent invocations interleave, each
\* invocation ends as it does when run alone: same return value, same
\* exception, same request to the service.
C20_ConcurrentAsAlone ==
    \A t \in 1..Len(threads.calls) :
        threads.calls[t].pc \in {"returned", "raised"} =>
            /\ threads.calls[t].result = RunAlone(threads.calls[t]).result
            /\ threads.calls[t].raised = RunAlone(threads.calls[t]).raised
            /\ threads.calls[t].sent = RunAlone(threads.calls[t]).sent

\* C20 witness: two mastery checks of two different classes ran concurrently
\* at the same threshold; the class whose student has mastered the competence
\* got True and the other class got False.
C20_Witness ==
    /\ Len(threads.calls) = 2
    /\ threads.calls[1].kind = "check_collective_mastery"
    /\ threads.calls[2].kind = "check_collective_mastery"
    /\ threads.calls[1].args.student_progress_data = << [x \in {"D1.3"} |-> Maitrise] >>
    /\ threads.calls[2].args.student_progress_data = << [x \in {"D1.3"} |-> EnCours] >>
    /\ threads.calls[1].args.threshold = threads.calls[2].args.threshold
    /\ threads.calls[1].pc = "returned"
    /\ threads.calls[2].pc = "returned"
    /\ threads.calls[1].result = TRUE
    /\ threads.calls[2].result = FALSE

----------------------------------------------------------------------------
(* Properties of repeated lookups, checked under SpecLookup *)

\* C21: the lookup is idempotent and deterministic: on the unchanged framework
\* every lookup of an id finds what the first lookup of that id found (the same
\* competence, or nothing every time), whichever other ids were looked up in
\* between, and a lookup that finds nothing returns the error every time.
C21_LookupIdempotent ==
    (op \in ComplianceOps) =>
        /\ args.competence_id \in DOMAIN lookups
        /\ locals.competence = lookups[args.competence_id].competence
        /\ (Len(locals.competence) = 0) => (result.status = "error" /\ sent = << >>)

\* C21 witness: each of the three ids has been looked up, and the last call
\* looked up again an id that the framework holds and found the competence.
C21_Witness ==
    /\ op \in ComplianceOps
    /\ DOMAIN lookups = CompetenceIds
    /\ lookups[args.competence_id].repeated
    /\ Len(locals.competence) = 1
    /\ locals.competence = lookups[args.competence_id].competence

----------------------------------------------------------------------------
(* Further properties of CollectiveValidationAgent, checked under SpecMastery *)

\* The labels of the three mastery states; the source compares with "maitrise"
\* and its usage example also writes "en cours".
RecognizedLabels == {"non commence", EnCours, Maitrise}

\* C22 as stated: when a student's label for the competence is not one of the
\* recognized ones, the mastery check fails with an error instead of returning
\* a verdict in which the student counts as not mastered.
C22_UnrecognizedLabelFailsFast ==
    (/\ op = "check_collective_mastery"
     /\ \E i \in 1..Len(progress_data) :
           /\ args.competence_id \in DOMAIN progress_data[i]
           /\ progress_data[i][args.competence_id] \notin RecognizedLabels) =>
        /\ raised # "none"
        /\ result = NoResult

----------------------------------------------------------------------------
(* Further properties of AcademicComplianceAgent, checked under Spec *)

\* How a request names the student: by the name of the record when it has one,
\* by the placeholder otherwise.
StudentNaming(student_data) ==
    IF "name" \in DOMAIN student_data THEN student_data.name ELSE "cet eleve"

\* C23: for a resolved competence, the remediation request names the student
\* (name of the record, or the placeholder) and carries the name and the
\* description of the competence and the gaps passed; the enrichment request
\* carries the same naming and competence context and no gaps.
C23_PlanRequestContents ==
    (op \in PlanOps /\ Len(locals.competence) = 1) =>
        /\ Len(sent) = 1
        /\ sent[1].user.student = StudentNaming(args.student_data)
        /\ sent[1].user.name = locals.competence[1].name
        /\ sent[1].user.description = locals.competence[1].description
        /\ (op = "generate_remediation_plan") =>
              /\ sent[1].user.template = "plan de remediation"
              /\ sent[1].user.gaps = args.identified_gaps
        /\ (op = "generate_enrichment_plan") =>
              /\ sent[1].user.template = "plan d'approfondissement"
              /\ "gaps" \notin DOMAIN sent[1].user

\* C23 witness: a remediation plan was requested for "Alice" on a resolved
\* competence, and the request names her and carries the gaps passed.
C23_Witness ==
    /\ op = "generate_remediation_plan"
    /\ Len(locals.competence) = 1
    /\ "name" \in DOMAIN args.student_data
    /\ sent[1].user.student = "Alice"
    /\ sent[1].user.name = "Pythagore"
    /\ sent[1].user.gaps = args.identified_gaps

----------------------------------------------------------------------------
(* Monotonicity of the mastery check, checked under SpecMastery *)

\* C24: the verdict is monotone in the threshold: when a check of a roster and
\* a competence met the threshold t, the next check of the same roster and
\* competence at a threshold t' <= t meets it too.
C24_MonotoneInThreshold ==
    [][ (/\ op = "check_collective_mastery"
         /\ op' = "check_collective_mastery"
         /\ progress_data' = progress_data
         /\ args'.competence_id = args.competence_id
         /\ GE(args.threshold, args'.threshold)
         /\ result = TRUE) => (result' = TRUE) ]_vars

\* C24 witness: two of three students have mastered the competence; the check
\* at threshold 1/2 is met, where the check at 9/10 is not.
C24_Witness ==
    /\ op = "check_collective_mastery"
    /\ locals.mastery_ratio = Rat(2, 3)
    /\ args.threshold = Rat(1, 2)
    /\ result = TRUE
    /\ ~check_collective_mastery(progress_data, args.competence_id, Rat(9, 10)).result

\* The roster in which student i has the given label for the competence.
WithLabel(roster, i, cid, label) ==
    [roster EXCEPT ![i] = [k \in DOMAIN roster[i] \cup {cid} |->
                               IF k = cid THEN label ELSE roster[i][k]]]

\* The roster in which student i has no entry for the competence.
WithoutEntry(roster, i, cid) ==
    [roster EXCEPT ![i] = [k \in DOMAIN roster[i] \ {cid} |-> roster[i][k]]]

\* Student i has mastered the competence.
HasMastered(roster, i, cid) ==
    cid \in DOMAIN roster[i] /\ roster[i][cid] = Maitrise

\* C25: the verdict is monotone in mastery, at a fixed threshold and roster
\* size: when the check is met, it is still met on the roster in which one
\* more student has mastered the competence; when it is not met, it is still
\* not met on the roster in which one student who had mastered it has another
\* label or no entry.
C25_MonotoneInMastery ==
    (op = "check_collective_mastery") =>
        \A i \in 1..Len(progress_data) :
            /\ (result = TRUE /\ ~HasMastered(progress_data, i, args.competence_id)) =>
                  check_collective_mastery(
                      WithLabel(progress_data, i, args.competence_id, Maitrise),
                      args.competence_id, args.threshold).result = TRUE
            /\ (result = FALSE /\ HasMastered(progress_data, i, args.competence_id)) =>
                  /\ \A label \in {EnCours, "Maitrise"} :
                        check_collective_mastery(
                            WithLabel(progress_data, i, args.competence_id, label),
                            args.competence_id, args.threshold).result = FALSE
                  /\ check_collective_mastery(
                         WithoutEntry(progress_data, i, args.competence_id),
                         args.competence_id, args.threshold).result = FALSE

\* C25 witness: one of two students has mastered the competence and the check
\* at threshold 1 is not met; it is met once the other student has mastered it
\* and stays unmet when the first student falls back to "en cours".
C25_Witness ==
    /\ op = "check_collective_mastery"
    /\ Len(progress_data) = 2
    /\ args.threshold = Rat(1, 1)
    /\ HasMastered(progress_data, 1, args.competence_id)
    /\ ~HasMastered(progress_data, 2, args.competence_id)
    /\ result = FALSE
    /\ check_collective_mastery(WithLabel(progress_data, 2, args.competence_id, Maitrise),
                                args.competence_id, args.threshold).result = TRUE
    /\ check_collective_mastery(WithLabel(progress_data, 1, args.competence_id, EnCours),
                                args.competence_id, args.threshold).result = FALSE

\* Where the loaded framework holds a competence with the id: <<i, j>> is
\* competence j of referentiel i.
Occurrences(cid) ==
    UNION { { <<i, j>> : j \in { k \in 1..Len(referentiels.referentiels[i].competences) :
                                   referentiels.referentiels[i].competences[k].id = cid } } :
            i \in 1..Len(referentiels.referentiels) }

\* The first of them in document order: referentiels in order, then the
\* competences of a referentiel in order.
FirstOccurrence(cid) ==
    CHOOSE p \in Occurrences(cid) :
        \A q \in Occurrences(cid) : p[1] < q[1] \/ (p[1] = q[1] /\ p[2] <= q[2])

\* C26: when the framework holds competences with the requested id, the three
\* operations all resolve to the first of them in document order, and a request
\* that is sent carries the name and the description of that one.
C26_FirstInDocumentOrder ==
    (op \in ComplianceOps /\ Occurrences(args.competence_id) # {}) =>
        LET p == FirstOccurrence(args.competence_id)
            first == referentiels.referentiels[p[1]].competences[p[2]]
        IN  /\ locals.competence = << first >>
            /\ \A k \in 1..Len(sent) :
                  /\ sent[k].user.name = first.name
                  /\ sent[k].user.description = first.description

\* C26 witness: "D1.3" is "Thales" in the first referentiel and "Pythagore" in
\* the second; the enrichment plan was requested for "D1.3" and the request is
\* about "Thales".
C26_Witness ==
    /\ op = "generate_enrichment_plan"
    /\ args.competence_id = "D1.3"
    /\ Occurrences("D1.3") = { <<1, 1>>, <<2, 1>> }
    /\ referentiels.referentiels[1].competences[1].name = "Thales"
    /\ referentiels.referentiels[2].competences[1].name = "Pythagore"
    /\ locals.competence[1].name = "Thales"
    /\ Len(sent) = 1
    /\ sent[1].user.name = "Thales"

----------------------------------------------------------------------------
(* Properties of FileManager, checked under SpecFiles *)

FileOps == {"read_file", "write_file", "append_to_file"}

\* C27 as stated: on every path, the bare file name included, read_file returns
\* what the last write_file and the append_to_file calls after it put there,
\* in order; write_file and append_to_file leave the file in existence; and
\* read_file of a path never written returns the not-found message and creates
\* no file.
C27_ReadReturnsWrittenThenAppended ==
    (op \in FileOps) =>
        /\ (op = "read_file" /\ args.file_path \in DOMAIN fs.written) =>
              result = fs.written[args.file_path]
        /\ (op = "read_file" /\ args.file_path \notin DOMAIN fs.written) =>
              /\ result = << "Erreur: Le fichier ", args.file_path, " n'a pas ete trouve." >>
              /\ args.file_path \notin DOMAIN fs.files
        /\ (op \in {"write_file", "append_to_file"}) =>
              args.file_path \in DOMAIN fs.files

====
